---- MODULE Spec2Model ----
(***************************************************************************)
(* A model of tools/make_remap_weights.py: the batch driver main(), the    *)
(* weight computation invoker create_weights() and the weight-file format  *)
(* converter convert_to_scrip_output().  The external collaborators (the   *)
(* esmgrids grid classes, ESMF_RegridWeightGen, ncrename, netCDF4) are     *)
(* modelled by their outcome: success, or the failure the driver sees.     *)
(***************************************************************************)
EXTENDS Integers, Sequences, FiniteSets, TLC

VARIABLES
    caller,         \* "main": the script was run; "direct": create_weights was called on its own
    args_atm,       \* --atm as given: <<>> for None, <<v>> for a value
    args_ocean,     \* --ocean as given
    args_method,    \* --method as given
    pc,             \* position in the code
    combos,         \* the nested for loops of main, flattened in iteration order
    cursor,         \* index in combos of the combination being processed (0 before the first)
    exit,           \* <<>> while running, <<code>> once the process has exited
    usagePrinted,   \* parser.print_help() was called
    abortAt,        \* the call that raised the unhandled exception, "" if none
    src_grid,       \* main's src_grid
    dest_grid,      \* main's dest_grid
    params,         \* the arguments of the running create_weights call
    tmp,            \* the temporary directory: mkstemp number -> file content
    ntmp,           \* number of names mkstemp has handed out
    cwd,            \* the working directory: file name -> file content
    src_grid_scrip, \* create_weights' local
    dest_grid_scrip,\* create_weights' local
    regrid_weights, \* create_weights' local
    new_weights,    \* convert_to_scrip_output's local
    weights,        \* main's weights: <<>> for None, <<n>> for the temporary file n
    calls,          \* the calls main has made in the current iteration, in order
    procs,          \* number of subprocesses started so far
    extFailed,      \* some external step (library call or subprocess) has failed
    genFailedAt,    \* cursor at which ESMF_RegridWeightGen exited non-zero, 0 if never
    renameRet       \* ncrename's result in the current iteration: "none", "ok", "fail" (non-zero exit), "not started"

vars == <<caller, args_atm, args_ocean, args_method, pc, combos, cursor, exit,
          usagePrinted, abortAt, src_grid, dest_grid, params, tmp, ntmp, cwd,
          src_grid_scrip, dest_grid_scrip, regrid_weights, new_weights,
          weights, calls, procs, extFailed, genFailedAt, renameRet>>

----------------------------------------------------------------------------
(* Bounds *)

\* largest number of cells of a grid mask
MaxCells == 2

----------------------------------------------------------------------------
(* Helpers *)

Range(s) == {s[i] : i \in 1..Len(s)}

RECURSIVE Flatten(_)
Flatten(ss) == IF ss = <<>> THEN <<>> ELSE Head(ss) \o Flatten(Tail(ss))

\* masks of the grids read from the grid definition files
Masks == UNION {[1..n -> {0, 1}] : n \in 1..MaxCells}

\* np.zeros_like(mask, dtype=int)
zeros_like(mask) == [i \in 1..Len(mask) |-> 0]

\* str.startswith('/')
StartsWithSep(s) == Len(s) > 0 /\ SubSeq(s, 1, 1) = "/"

\* str.endswith('/')
EndsWithSep(s) == Len(s) > 0 /\ SubSeq(s, Len(s), Len(s)) = "/"

\* os.path.join: an absolute part restarts the path, no separator is added
\* after an empty path or a path that ends with one
path_join(parts) ==
    LET RECURSIVE J(_, _)
        J(path, rest) ==
            IF rest = <<>> THEN path
            ELSE LET b == Head(rest)
                 IN J(IF StartsWithSep(b) THEN b
                      ELSE IF path = "" \/ EndsWithSep(path) THEN path \o b
                      ELSE path \o "/" \o b,
                      Tail(rest))
    IN J(Head(parts), Tail(parts))

----------------------------------------------------------------------------
(* main: option tables *)

atm_options == <<"CORE2", "JRA55", "JRA55_runoff">>

ocean_options == <<"MOM1", "MOM01", "MOM025">>

method_options == <<"patch", "conserve2nd">>

\* the grid classes the module imports
Imported == {"MomGrid", "Core2Grid", "Jra55Grid", "Jra55RiverGrid"}

\* the two positional arguments
input_dir == "input/"

jra55_input == "jra55"

find_grid_defs(idir, jdir) ==
    [g \in Range(atm_options) \cup Range(ocean_options) |->
        CASE g = "MOM1"   -> <<path_join(<<idir, "mom_1deg", "ocean_hgrid.nc">>),
                               path_join(<<idir, "mom_1deg", "ocean_mask.nc">>)>>
          [] g = "MOM025" -> <<path_join(<<idir, "mom_025deg", "ocean_hgrid.nc">>),
                               path_join(<<idir, "mom_025deg", "ocean_mask.nc">>)>>
          [] g = "MOM01"  -> <<path_join(<<idir, "mom_01deg", "ocean_hgrid.nc">>),
                               path_join(<<idir, "mom_01deg", "ocean_mask.nc">>)>>
          [] g = "CORE2"  -> <<path_join(<<idir, "core_nyf", "t_10.0001.nc">>)>>
          [] g = "JRA55"  -> <<path_join(<<jdir, "RYF.t_10.1990_1991.nc">>)>>
          [] g = "JRA55_runoff" -> <<path_join(<<jdir, "RYF.runoff_all.1990_1991.nc">>)>>]

grid_file_dict == find_grid_defs(input_dir, jra55_input)

\* the values a filter is tried with: every option and one value outside the options
AtmInputs == {<<>>} \cup {<<a>> : a \in Range(atm_options) \cup {"JRA55_river"}}

OceanInputs == {<<>>} \cup {<<o>> : o \in Range(ocean_options) \cup {"MOM2"}}

MethodInputs == {<<>>} \cup {<<m>> : m \in Range(method_options) \cup {"bilinear"}}

\* a filter that is omitted selects every option, a filter that is given selects its value
Selected(arg, options) == IF arg = <<>> THEN options ELSE <<arg[1]>>

\* a filter that is given with a value outside its options
NotAnOption(arg, options) == arg # <<>> /\ arg[1] \notin Range(options)

\* Rejected without the test of --ocean
RejectedNoOceanCheck(atm, ocean, method) == NotAnOption(atm, atm_options)

\* Rejected without the test of --atm
RejectedNoAtmCheck(atm, ocean, method) == NotAnOption(ocean, ocean_options)

\* main's validation of the three filters: TRUE when main prints the usage and returns 1
Rejected(atm, ocean, method) ==
    \/ NotAnOption(atm, atm_options)
    \/ NotAnOption(ocean, ocean_options)

\* for atm in args.atm: for ocean in args.ocean: for method in args.method
Product(atms, oceans, methods) ==
    Flatten([i \in 1..Len(atms) |->
        Flatten([j \in 1..Len(oceans) |->
            [k \in 1..Len(methods) |-> <<atms[i], oceans[j], methods[k]>>]])])

\* '{}_{}_{}.nc'.format(atm, ocean, method)
OutName(c) == c[1] \o "_" \o c[2] \o "_" \o c[3] \o ".nc"

\* the constructor main names for an atmosphere grid
SrcCtor(atm) ==
    IF atm = "CORE2" THEN "Core2Grid"
    ELSE IF atm = "JRA55" THEN "Jra55Grid"
    ELSE "Jra552RiverGrid"

----------------------------------------------------------------------------
(* Files *)

NoGrid == [cls |-> "None", mask |-> <<>>]

EmptyFile == [kind |-> "empty", mask |-> <<>>, dims |-> {}, vars |-> {}]

\* grid.write_scrip(filename, mask=None): the grid's own mask unless one is passed
write_scrip(grid, mask_arg) ==
    [kind |-> "scrip",
     mask |-> IF mask_arg = <<>> THEN grid.mask ELSE mask_arg[1],
     dims |-> {"grid_size", "grid_corners", "grid_rank"},
     vars |-> {"grid_dims", "grid_center_lat", "grid_center_lon", "grid_imask",
               "grid_corner_lat", "grid_corner_lon", "grid_area"}]

\* MaskArg with the unmasked flag ignored
MaskArgIgnoringFlag(unmasked, grid) == <<>>

\* the mask argument create_weights passes to write_scrip for a side
MaskArg(unmasked, grid) == IF unmasked THEN <<zeros_like(grid.mask)>> ELSE <<>>

\* the weight file ESMF_RegridWeightGen writes
EsmfWeights ==
    [kind |-> "weights", mask |-> <<>>,
     dims |-> {"n_a", "n_b", "n_s", "nv_a", "nv_b", "num_wgts",
               "src_grid_rank", "dst_grid_rank"},
     vars |-> {"yc_a", "yc_b", "xc_a", "xc_b", "yv_a", "xv_a", "yv_b", "xv_b",
               "mask_a", "mask_b", "area_a", "area_b", "frac_a", "frac_b",
               "col", "row", "S", "src_grid_dims", "dst_grid_dims"}]

\* RenameTable with xc_b renamed to the new name of yc_b
RenameTableDup ==
    << <<"-d", "n_a", "src_grid_size">>,
       <<"-d", "n_b", "dst_grid_size">>,
       <<"-d", "n_s", "num_links">>,
       <<"-d", "nv_a", "src_grid_corners">>,
       <<"-d", "nv_b", "dst_grid_corners">>,
       <<"-v", "yc_a", "src_grid_center_lat">>,
       <<"-v", "yc_b", "dst_grid_center_lat">>,
       <<"-v", "xc_a", "src_grid_center_lon">>,
       <<"-v", "xc_b", "dst_grid_center_lat">>,
       <<"-v", "yv_a", "src_grid_corner_lat">>,
       <<"-v", "xv_a", "src_grid_corner_lon">>,
       <<"-v", "yv_b", "dst_grid_corner_lat">>,
       <<"-v", "xv_b", "dst_grid_corner_lon">>,
       <<"-v", "mask_a", "src_grid_imask">>,
       <<"-v", "mask_b", "dst_grid_imask">>,
       <<"-v", "area_a", "src_grid_area">>,
       <<"-v", "area_b", "dst_grid_area">>,
       <<"-v", "frac_a", "src_grid_frac">>,
       <<"-v", "frac_b", "dst_grid_frac">>,
       <<"-v", "col", "src_address">>,
       <<"-v", "row", "dst_address">> >>

\* the -d old,new and -v old,new arguments of the ncrename command
RenameTable ==
    << <<"-d", "n_a", "src_grid_size">>,
       <<"-d", "n_b", "dst_grid_size">>,
       <<"-d", "n_s", "num_links">>,
       <<"-d", "nv_a", "src_grid_corners">>,
       <<"-d", "nv_b", "dst_grid_corners">>,
       <<"-v", "yc_a", "src_grid_center_lat">>,
       <<"-v", "yc_b", "dst_grid_center_lat">>,
       <<"-v", "xc_a", "src_grid_center_lon">>,
       <<"-v", "xc_b", "dst_grid_center_lon">>,
       <<"-v", "yv_a", "src_grid_corner_lat">>,
       <<"-v", "xv_a", "src_grid_corner_lon">>,
       <<"-v", "yv_b", "dst_grid_corner_lat">>,
       <<"-v", "xv_b", "dst_grid_corner_lon">>,
       <<"-v", "mask_a", "src_grid_imask">>,
       <<"-v", "mask_b", "dst_grid_imask">>,
       <<"-v", "area_a", "src_grid_area">>,
       <<"-v", "area_b", "dst_grid_area">>,
       <<"-v", "frac_a", "src_grid_frac">>,
       <<"-v", "frac_b", "dst_grid_frac">>,
       <<"-v", "col", "src_address">>,
       <<"-v", "row", "dst_address">> >>

OldNames(flag) == {e[2] : e \in {x \in Range(RenameTable) : x[1] = flag}}

NewNames(flag) == {e[3] : e \in {x \in Range(RenameTable) : x[1] = flag}}

\* the name ncrename gives to the dimension (-d) or variable (-v) called name
RenameName(flag, name) ==
    IF \E i \in 1..Len(RenameTable) : RenameTable[i][1] = flag /\ RenameTable[i][2] = name
    THEN RenameTable[CHOOSE i \in 1..Len(RenameTable) :
                        RenameTable[i][1] = flag /\ RenameTable[i][2] = name][3]
    ELSE name

\* ncrename exits non-zero when a name it is told to rename is not in the file
CanRename(f) == OldNames("-d") \subseteq f.dims /\ OldNames("-v") \subseteq f.vars

\* the file ncrename writes from the file f
ncrename(f) ==
    [f EXCEPT !.dims = {RenameName("-d", n) : n \in f.dims},
              !.vars = {RenameName("-v", n) : n \in f.vars}]

\* createVariable('remap_matrix', 'f8', ('num_links', 'num_wgts')) of f_new and
\* the read of f_old.variables['S'] both find what they name
CanCopy(f_old, f_new) ==
    {"num_links", "num_wgts"} \subseteq f_new.dims /\ "S" \in f_old.vars

\* remove the file n from a directory
Remove(dir, n) == [m \in DOMAIN dir \ {n} |-> dir[m]]

\* create or overwrite the file n of a directory
Put(dir, n, f) == [m \in DOMAIN dir \cup {n} |-> IF m = n THEN f ELSE dir[m]]

\* the keyword defaults of create_weights
create_weights_defaults ==
    [method |-> "conserve", ignore_unmapped |-> FALSE,
     unmasked_src |-> TRUE, unmasked_dest |-> FALSE]

----------------------------------------------------------------------------
(* Initial states *)

InitCommon ==
    /\ combos = <<>>
    /\ cursor = 0
    /\ exit = <<>>
    /\ usagePrinted = FALSE
    /\ abortAt = ""
    /\ tmp = <<>>
    /\ ntmp = 0
    /\ cwd = [n \in {} |-> EmptyFile]
    /\ src_grid_scrip = 0
    /\ dest_grid_scrip = 0
    /\ regrid_weights = 0
    /\ new_weights = 0
    /\ weights = <<>>
    /\ calls = <<>>
    /\ procs = 0
    /\ extFailed = FALSE
    /\ genFailedAt = 0
    /\ renameRet = "none"

\* the script is started with some command line
Init ==
    /\ caller = "main"
    /\ args_atm \in AtmInputs
    /\ args_ocean \in OceanInputs
    /\ args_method \in MethodInputs
    /\ pc = "parse_args"
    /\ src_grid = NoGrid
    /\ dest_grid = NoGrid
    /\ params = create_weights_defaults
    /\ InitCommon

\* create_weights is called on its own with two grids and any flags
InitDirect ==
    /\ caller = "direct"
    /\ args_atm = <<>>
    /\ args_ocean = <<>>
    /\ args_method = <<>>
    /\ pc = "cw_mkstemp"
    /\ \E ms \in Masks : src_grid = [cls |-> "Core2Grid", mask |-> ms]
    /\ \E md \in Masks : dest_grid = [cls |-> "MomGrid", mask |-> md]
    /\ \E us \in BOOLEAN, ud \in BOOLEAN, iu \in BOOLEAN :
          params = [method |-> "conserve", ignore_unmapped |-> iu,
                    unmasked_src |-> us, unmasked_dest |-> ud]
    /\ InitCommon

----------------------------------------------------------------------------
(* Actions *)

\* an exception nobody catches: under main the interpreter prints the
\* traceback and exits with 1, a direct call raises it to its caller
Raise(at) ==
    /\ pc' = IF caller = "main" THEN "exit" ELSE "raised"
    /\ exit' = IF caller = "main" THEN <<1>> ELSE exit
    /\ abortAt' = at

\* main, from parse_args to the start of the loops
ParseArgs ==
    /\ pc = "parse_args"
    /\ IF Rejected(args_atm, args_ocean, args_method)
       THEN /\ usagePrinted' = TRUE
            /\ exit' = <<1>>
            /\ pc' = "exit"
            /\ UNCHANGED combos
       ELSE /\ combos' = Product(Selected(args_atm, atm_options),
                                 Selected(args_ocean, ocean_options),
                                 Selected(args_method, method_options))
            /\ pc' = "loop"
            /\ UNCHANGED <<usagePrinted, exit>>
    /\ UNCHANGED <<caller, args_atm, args_ocean, args_method, cursor, abortAt,
                   src_grid, dest_grid, params, tmp, ntmp, cwd, src_grid_scrip,
                   dest_grid_scrip, regrid_weights, new_weights, weights, calls,
                   procs, extFailed, genFailedAt, renameRet>>

\* the head of the nested loops: the next combination, or return 0
LoopHead ==
    /\ pc = "loop"
    /\ IF cursor < Len(combos)
       THEN /\ cursor' = cursor + 1
            /\ pc' = "src_grid"
            /\ calls' = <<>>
            /\ renameRet' = "none"
            /\ UNCHANGED exit
       ELSE /\ exit' = <<0>>
            /\ pc' = "exit"
            /\ UNCHANGED <<cursor, calls, renameRet>>
    /\ UNCHANGED <<caller, args_atm, args_ocean, args_method, combos,
                   usagePrinted, abortAt, src_grid, dest_grid, params, tmp, ntmp,
                   cwd, src_grid_scrip, dest_grid_scrip, regrid_weights,
                   new_weights, weights, procs, extFailed, genFailedAt>>

\* src_grid = <constructor for atm>(grid_file_dict[atm])
ConstructSrcGrid ==
    /\ pc = "src_grid"
    /\ LET atm == combos[cursor][1]
           ctor == SrcCtor(atm)
       IN IF ctor \notin Imported
          THEN /\ Raise("NameError")
               /\ UNCHANGED <<src_grid, calls, extFailed>>
          ELSE \/ /\ \E m \in Masks : src_grid' = [cls |-> ctor, mask |-> m]
                  /\ calls' = Append(calls, [fn |-> ctor, args |-> grid_file_dict[atm]])
                  /\ pc' = "dest_grid"
                  /\ UNCHANGED <<exit, abortAt, extFailed>>
               \/ /\ Raise(ctor)
                  /\ extFailed' = TRUE
                  /\ UNCHANGED <<src_grid, calls>>
    /\ UNCHANGED <<caller, args_atm, args_ocean, args_method, combos, cursor,
                   usagePrinted, dest_grid, params, tmp, ntmp, cwd,
                   src_grid_scrip, dest_grid_scrip, regrid_weights, new_weights,
                   weights, procs, genFailedAt, renameRet>>

\* dest_grid = MomGrid.fromfile(hgrid, mask_file=mask)
ConstructDestGrid ==
    /\ pc = "dest_grid"
    /\ LET ocean == combos[cursor][2]
       IN \/ /\ \E m \in Masks : dest_grid' = [cls |-> "MomGrid", mask |-> m]
             /\ calls' = Append(calls, [fn |-> "MomGrid.fromfile",
                                        args |-> <<grid_file_dict[ocean][1],
                                                   grid_file_dict[ocean][2]>>])
             /\ pc' = "call_create_weights"
             /\ UNCHANGED <<exit, abortAt, extFailed>>
          \/ /\ Raise("MomGrid.fromfile")
             /\ extFailed' = TRUE
             /\ UNCHANGED <<dest_grid, calls>>
    /\ UNCHANGED <<caller, args_atm, args_ocean, args_method, combos, cursor,
                   usagePrinted, src_grid, params, tmp, ntmp, cwd,
                   src_grid_scrip, dest_grid_scrip, regrid_weights, new_weights,
                   weights, procs, genFailedAt, renameRet>>

\* main's call create_weights(src_grid, dest_grid, method=method)
CallCreateWeights ==
    /\ pc = "call_create_weights"
    /\ params' = [create_weights_defaults EXCEPT !.method = combos[cursor][3]]
    /\ calls' = Append(calls, [fn |-> "create_weights", args |-> <<combos[cursor][3]>>])
    /\ pc' = "cw_mkstemp"
    /\ UNCHANGED <<caller, args_atm, args_ocean, args_method, combos, cursor,
                   exit, usagePrinted, abortAt, src_grid, dest_grid, tmp, ntmp,
                   cwd, src_grid_scrip, dest_grid_scrip, regrid_weights,
                   new_weights, weights, procs, extFailed, genFailedAt, renameRet>>

\* create_weights: the three tempfile.mkstemp calls
CWMkstemp ==
    /\ pc = "cw_mkstemp"
    /\ src_grid_scrip' = ntmp + 1
    /\ dest_grid_scrip' = ntmp + 2
    /\ regrid_weights' = ntmp + 3
    /\ ntmp' = ntmp + 3
    /\ tmp' = Put(Put(Put(tmp, ntmp + 1, EmptyFile), ntmp + 2, EmptyFile),
                  ntmp + 3, EmptyFile)
    /\ pc' = "cw_write_src"
    /\ UNCHANGED <<caller, args_atm, args_ocean, args_method, combos, cursor,
                   exit, usagePrinted, abortAt, src_grid, dest_grid, params, cwd,
                   new_weights, weights, calls, procs, extFailed, genFailedAt,
                   renameRet>>

\* create_weights: write the source grid, all-zero-masked if unmasked_src
CWWriteSrc ==
    /\ pc = "cw_write_src"
    /\ \/ /\ tmp' = Put(tmp, src_grid_scrip,
                        write_scrip(src_grid, MaskArg(params.unmasked_src, src_grid)))
          /\ pc' = "cw_write_dest"
          /\ UNCHANGED <<exit, abortAt, extFailed>>
       \/ /\ Raise("write_scrip")
          /\ extFailed' = TRUE
          /\ UNCHANGED tmp
    /\ UNCHANGED <<caller, args_atm, args_ocean, args_method, combos, cursor,
                   usagePrinted, src_grid, dest_grid, params, ntmp, cwd,
                   src_grid_scrip, dest_grid_scrip, regrid_weights, new_weights,
                   weights, calls, procs, genFailedAt, renameRet>>

\* create_weights: write the destination grid, all-zero-masked if unmasked_dest
CWWriteDest ==
    /\ pc = "cw_write_dest"
    /\ \/ /\ tmp' = Put(tmp, dest_grid_scrip,
                        write_scrip(dest_grid, MaskArg(params.unmasked_dest, dest_grid)))
          /\ pc' = "cw_regrid"
          /\ UNCHANGED <<exit, abortAt, extFailed>>
       \/ /\ Raise("write_scrip")
          /\ extFailed' = TRUE
          /\ UNCHANGED tmp
    /\ UNCHANGED <<caller, args_atm, args_ocean, args_method, combos, cursor,
                   usagePrinted, src_grid, dest_grid, params, ntmp, cwd,
                   src_grid_scrip, dest_grid_scrip, regrid_weights, new_weights,
                   weights, calls, procs, genFailedAt, renameRet>>

\* where create_weights returns to, and main's call of convert_to_scrip_output
ReturnFromCreateWeights ==
    IF caller = "main"
    THEN /\ pc' = "cv_mkstemp"
         /\ calls' = Append(calls, [fn |-> "convert_to_scrip_output", args |-> <<>>])
    ELSE /\ pc' = "returned"
         /\ UNCHANGED calls

\* RegridFailed with a main that checks for None and goes on to the next combination
RegridFailedSkipping ==
    /\ weights' = <<>>
    /\ extFailed' = TRUE
    /\ genFailedAt' = cursor
    /\ pc' = IF caller = "main" THEN "loop" ELSE "returned"
    /\ UNCHANGED <<tmp, calls>>

\* create_weights on a non-zero exit of the generator: print, return None
RegridFailed ==
    /\ weights' = <<>>
    /\ extFailed' = TRUE
    /\ genFailedAt' = cursor
    /\ ReturnFromCreateWeights
    /\ UNCHANGED tmp

\* RegridSucceeded without os.remove(src_grid_scrip)
RegridSucceededLeakingSrc ==
    /\ tmp' = Remove(Put(tmp, regrid_weights, EsmfWeights), dest_grid_scrip)
    /\ weights' = <<regrid_weights>>
    /\ ReturnFromCreateWeights
    /\ UNCHANGED <<extFailed, genFailedAt>>

\* create_weights once the generator has exited with 0: remove the two grid
\* files, return the weight file
RegridSucceeded ==
    /\ tmp' = Remove(Remove(Put(tmp, regrid_weights, EsmfWeights), src_grid_scrip),
                     dest_grid_scrip)
    /\ weights' = <<regrid_weights>>
    /\ ReturnFromCreateWeights
    /\ UNCHANGED <<extFailed, genFailedAt>>

\* create_weights when mpirun cannot be started: sp.check_output raises an
\* OSError, which the except of CalledProcessError does not catch
RegridNotStarted ==
    /\ Raise("sp.check_output(ESMF_RegridWeightGen)")
    /\ extFailed' = TRUE
    /\ UNCHANGED <<tmp, weights, calls, genFailedAt>>

\* create_weights: run mpirun ESMF_RegridWeightGen and return
CWRegrid ==
    /\ pc = "cw_regrid"
    /\ procs' = procs + 1
    /\ \/ RegridSucceeded /\ UNCHANGED <<exit, abortAt>>
       \/ RegridFailed /\ UNCHANGED <<exit, abortAt>>
       \/ RegridNotStarted
    /\ UNCHANGED <<caller, args_atm, args_ocean, args_method, combos, cursor,
                   usagePrinted, src_grid, dest_grid, params, ntmp,
                   cwd, src_grid_scrip, dest_grid_scrip, regrid_weights,
                   new_weights, renameRet>>

\* convert_to_scrip_output: mkstemp a name for the converted file and remove
\* the file, so that ncrename does not prompt
CVMkstemp ==
    /\ pc = "cv_mkstemp"
    /\ new_weights' = ntmp + 1
    /\ ntmp' = ntmp + 1
    /\ tmp' = Remove(Put(tmp, ntmp + 1, EmptyFile), ntmp + 1)
    /\ pc' = "cv_rename"
    /\ UNCHANGED <<caller, args_atm, args_ocean, args_method, combos, cursor,
                   exit, usagePrinted, abortAt, src_grid, dest_grid, params, cwd,
                   src_grid_scrip, dest_grid_scrip, regrid_weights, weights,
                   calls, procs, extFailed, genFailedAt, renameRet>>

\* the input file of ncrename is there: weights names a file of the temporary
\* directory (None is formatted as the file name 'None', which does not exist)
RenameInputExists == weights # <<>> /\ weights[1] \in DOMAIN tmp

\* what a failed ncrename may leave under the output name: nothing, a copy of
\* its input, or the renamed file
RenameLeftovers ==
    IF RenameInputExists
    THEN {<<>>, <<tmp[weights[1]]>>, <<ncrename(tmp[weights[1]])>>}
    ELSE {<<>>}

\* RenameFailed with the CalledProcessError left uncaught
RenameFailedFatal ==
    /\ Raise("ncrename")
    /\ renameRet' = "fail"
    /\ extFailed' = TRUE
    /\ UNCHANGED tmp

\* convert_to_scrip_output when ncrename exits non-zero: print e.output, go on
RenameFailed ==
    /\ renameRet' = "fail"
    /\ extFailed' = TRUE
    /\ \E left \in RenameLeftovers :
          tmp' = IF left = <<>> THEN tmp ELSE Put(tmp, new_weights, left[1])
    /\ pc' = "cv_copy"
    /\ UNCHANGED <<exit, abortAt>>

\* convert_to_scrip_output when ncrename cannot be started: sp.check_output
\* raises an OSError, which the except of CalledProcessError does not catch
RenameNotStarted ==
    /\ Raise("sp.check_output(ncrename)")
    /\ renameRet' = "not started"
    /\ extFailed' = TRUE
    /\ UNCHANGED tmp

\* convert_to_scrip_output: run ncrename from weights to new_weights
CVRename ==
    /\ pc = "cv_rename"
    /\ procs' = procs + 1
    /\ \/ /\ RenameInputExists
          /\ CanRename(tmp[weights[1]])
          /\ tmp' = Put(tmp, new_weights, ncrename(tmp[weights[1]]))
          /\ renameRet' = "ok"
          /\ pc' = "cv_copy"
          /\ UNCHANGED <<exit, abortAt, extFailed>>
       \/ RenameFailed
       \/ RenameNotStarted
    /\ UNCHANGED <<caller, args_atm, args_ocean, args_method, combos, cursor,
                   usagePrinted, src_grid, dest_grid, params, ntmp, cwd,
                   src_grid_scrip, dest_grid_scrip, regrid_weights, new_weights,
                   weights, calls, genFailedAt>>

\* nc.Dataset(weights), nc.Dataset(new_weights, 'r+'), createVariable and the
\* copy of S all succeed
CopyCanRun ==
    /\ RenameInputExists
    /\ new_weights \in DOMAIN tmp
    /\ CanCopy(tmp[weights[1]], tmp[new_weights])

\* the temporary directory after the with block and os.remove(weights)
AfterCopy ==
    Remove(Put(tmp, new_weights,
               [tmp[new_weights] EXCEPT !.vars = @ \cup {"remap_matrix"}]),
           weights[1])

\* convert_to_scrip_output: add remap_matrix to the converted file, remove the
\* original, return the converted file to main, which assigns it to weights
CVCopy ==
    /\ pc = "cv_copy"
    /\ IF CopyCanRun
       THEN /\ tmp' = AfterCopy
            /\ weights' = <<new_weights>>
            /\ pc' = "move"
            /\ UNCHANGED <<exit, abortAt>>
       ELSE /\ Raise("nc.Dataset")
            /\ UNCHANGED <<tmp, weights>>
    /\ UNCHANGED <<caller, args_atm, args_ocean, args_method, combos, cursor,
                   usagePrinted, src_grid, dest_grid, params, ntmp, cwd,
                   src_grid_scrip, dest_grid_scrip, regrid_weights, new_weights,
                   calls, procs, extFailed, genFailedAt, renameRet>>

\* shutil.move(weights, '{}_{}_{}.nc'.format(atm, ocean, method))
Move ==
    /\ pc = "move"
    /\ cwd' = Put(cwd, OutName(combos[cursor]), tmp[weights[1]])
    /\ tmp' = Remove(tmp, weights[1])
    /\ calls' = Append(calls, [fn |-> "shutil.move",
                               args |-> <<OutName(combos[cursor])>>])
    /\ pc' = "loop"
    /\ UNCHANGED <<caller, args_atm, args_ocean, args_method, combos, cursor,
                   exit, usagePrinted, abortAt, src_grid, dest_grid, params, ntmp,
                   src_grid_scrip, dest_grid_scrip, regrid_weights, new_weights,
                   weights, procs, extFailed, genFailedAt, renameRet>>

----------------------------------------------------------------------------
(* Specifications *)

Next ==
    \/ ParseArgs
    \/ LoopHead
    \/ ConstructSrcGrid
    \/ ConstructDestGrid
    \/ CallCreateWeights
    \/ CWMkstemp
    \/ CWWriteSrc
    \/ CWWriteDest
    \/ CWRegrid
    \/ CVMkstemp
    \/ CVRename
    \/ CVCopy
    \/ Move

\* a run of the script
Spec == Init /\ [][Next]_vars

\* a run of the script, or a call of create_weights on its own
SpecAPI == (Init \/ InitDirect) /\ [][Next]_vars

----------------------------------------------------------------------------
(* Properties *)

\* the iteration of combination number i has run to its end
Finished(i) == i < cursor \/ (i = cursor /\ (pc = "loop" \/ exit = <<0>>))

\* the process has ended, by a return of main or by an unhandled exception
Terminated == exit # <<>>

BadAtm == NotAnOption(args_atm, atm_options)

BadOcean == NotAnOption(args_ocean, ocean_options)

BadMethod == NotAnOption(args_method, method_options)

AllZero(mask) == \A i \in 1..Len(mask) : mask[i] = 0

\* C1: while every external step has succeeded, each combination whose
\* iteration has finished has its output file {atm}_{ocean}_{method}.nc, there
\* is exactly one output file per finished iteration, and between iterations
\* (and at return 0) no temporary file exists.
C1_OutputAndNoTemporaries ==
    ~extFailed =>
        /\ \A i \in 1..Len(combos) : Finished(i) => OutName(combos[i]) \in DOMAIN cwd
        /\ Cardinality(DOMAIN cwd) = Cardinality({i \in 1..Len(combos) : Finished(i)})
        /\ (pc \in {"loop", "src_grid", "dest_grid", "call_create_weights"}
              \/ exit = <<0>>) => DOMAIN tmp = {}

C1_Witness ==
    /\ ~extFailed
    /\ pc = "loop"
    /\ cursor >= 2
    /\ ntmp >= 8
    /\ OutName(combos[cursor]) \in DOMAIN cwd

\* C2: a run without filters whose external tools all succeed ends with
\* return 0 and the 18 output files of the full product.
C2_FullProductProduced ==
    (args_atm = <<>> /\ args_ocean = <<>> /\ args_method = <<>>
        /\ Terminated /\ ~extFailed) =>
        /\ exit = <<0>>
        /\ Cardinality(DOMAIN cwd) = 18
        /\ \A c \in Range(Product(atm_options, ocean_options, method_options)) :
              OutName(c) \in DOMAIN cwd

\* C3 as stated: a value outside the option set of any of the three filters
\* is rejected with the usage message and a non-zero exit, and no combination
\* is processed.
C3_EveryFilterValidated ==
    (pc # "parse_args" /\ (BadAtm \/ BadOcean \/ BadMethod)) =>
        /\ usagePrinted
        /\ exit # <<>> /\ exit # <<0>>
        /\ cursor = 0

\* C3 amended: a value outside the option set of --atm or --ocean is rejected
\* with the usage message and exit code 1 and no combination is processed;
\* a --method value outside the method options is not rejected, it becomes the
\* only method of the run.
C3_AtmAndOceanValidated ==
    pc # "parse_args" =>
        /\ (BadAtm \/ BadOcean) =>
              /\ usagePrinted
              /\ exit = <<1>>
              /\ cursor = 0
              /\ combos = <<>>
        /\ (~BadAtm /\ ~BadOcean /\ BadMethod) =>
              /\ ~usagePrinted
              /\ combos # <<>>
              /\ \A i \in 1..Len(combos) : combos[i][3] = args_method[1]

C3_Witness ==
    /\ pc = "exit"
    /\ usagePrinted
    /\ BadOcean
    /\ ~BadAtm

\* C4: an --atm or --ocean value outside its options makes main return 1
\* before any grid is constructed, any temporary file is created or any
\* subprocess is started, so that no output file exists; with valid filters a
\* run in which every combination got its output file returns 0.
C4_ExitCodes ==
    /\ (pc # "parse_args" /\ (BadAtm \/ BadOcean)) =>
          /\ exit = <<1>>
          /\ src_grid = NoGrid /\ dest_grid = NoGrid
          /\ ntmp = 0 /\ DOMAIN tmp = {}
          /\ procs = 0
          /\ DOMAIN cwd = {}
    /\ (Terminated /\ ~BadAtm /\ ~BadOcean
          /\ \A c \in Range(Product(Selected(args_atm, atm_options),
                                    Selected(args_ocean, ocean_options),
                                    Selected(args_method, method_options))) :
                OutName(c) \in DOMAIN cwd) =>
          exit = <<0>>

C4_Witness ==
    /\ pc = "exit"
    /\ BadAtm
    /\ exit = <<1>>

\* C5: with --atm A, --ocean O and --method M all given and valid and the
\* external steps succeeding, the run processes the single combination
\* (A, O, M) and ends with A_O_M.nc as its only output file.
C5_SingleCombination ==
    (/\ args_atm # <<>> /\ args_ocean # <<>> /\ args_method # <<>>
     /\ ~BadAtm /\ ~BadOcean /\ ~BadMethod
     /\ Terminated /\ ~extFailed) =>
        /\ combos = << <<args_atm[1], args_ocean[1], args_method[1]>> >>
        /\ DOMAIN cwd = {OutName(<<args_atm[1], args_ocean[1], args_method[1]>>)}

\* no old name twice, no new name twice, no name both old and new
TableIsBijection ==
    /\ \A i, j \in 1..Len(RenameTable) :
          i # j => /\ RenameTable[i][2] # RenameTable[j][2]
                   /\ RenameTable[i][3] # RenameTable[j][3]
    /\ \A i, j \in 1..Len(RenameTable) : RenameTable[i][2] # RenameTable[j][3]

\* after a successful ncrename: the old names are gone from the converted
\* file, the new names are there, every other name is kept
RenamedAsTabulated ==
    (pc = "cv_copy" /\ renameRet = "ok") =>
        LET old == tmp[weights[1]]
            new == tmp[new_weights]
        IN /\ \A i \in 1..Len(RenameTable) :
                 LET e == RenameTable[i]
                     before == IF e[1] = "-d" THEN old.dims ELSE old.vars
                     after == IF e[1] = "-d" THEN new.dims ELSE new.vars
                 IN e[2] \in before /\ e[2] \notin after /\ e[3] \in after
           /\ old.dims \ {RenameTable[i][2] : i \in 1..Len(RenameTable)}
                 = new.dims \ {RenameTable[i][3] : i \in 1..Len(RenameTable)}
           /\ old.vars \ {RenameTable[i][2] : i \in 1..Len(RenameTable)}
                 = new.vars \ {RenameTable[i][3] : i \in 1..Len(RenameTable)}
           /\ Cardinality(old.dims) = Cardinality(new.dims)
           /\ Cardinality(old.vars) = Cardinality(new.vars)

\* C6 as stated: the rename table has exactly 16 entries, is a bijection, and
\* a successful rename replaces every old name by its new name and keeps
\* every other name.
C6_SixteenEntryBijection ==
    /\ Len(RenameTable) = 16
    /\ TableIsBijection
    /\ RenamedAsTabulated

\* C6 amended: the rename table has exactly 21 entries, 5 dimension renames
\* and 16 variable renames, is a bijection, and a successful rename replaces
\* every old name by its new name and keeps every other name.
C6_TwentyOneEntryBijection ==
    /\ Len(RenameTable) = 21
    /\ Cardinality({i \in 1..Len(RenameTable) : RenameTable[i][1] = "-d"}) = 5
    /\ Cardinality({i \in 1..Len(RenameTable) : RenameTable[i][1] = "-v"}) = 16
    /\ TableIsBijection
    /\ RenamedAsTabulated

C6_Witness ==
    /\ pc = "cv_copy"
    /\ renameRet = "ok"
    /\ "src_address" \in tmp[new_weights].vars
    /\ "S" \in tmp[new_weights].vars

\* C7: once create_weights has written both grid files, the file of a side
\* whose unmasked flag is set has an all-zero mask as long as the grid's mask,
\* the file of a side whose flag is not set has the grid's own mask; called
\* by main, the source file is all-zero-masked and the destination file has
\* the ocean grid's mask.
C7_MaskOverride ==
    pc = "cw_regrid" =>
        LET fs == tmp[src_grid_scrip]
            fd == tmp[dest_grid_scrip]
        IN /\ params.unmasked_src =>
                 Len(fs.mask) = Len(src_grid.mask) /\ AllZero(fs.mask)
           /\ ~params.unmasked_src => fs.mask = src_grid.mask
           /\ params.unmasked_dest =>
                 Len(fd.mask) = Len(dest_grid.mask) /\ AllZero(fd.mask)
           /\ ~params.unmasked_dest => fd.mask = dest_grid.mask
           /\ caller = "main" =>
                 /\ Len(fs.mask) = Len(src_grid.mask) /\ AllZero(fs.mask)
                 /\ fd.mask = dest_grid.mask

C7_Witness ==
    /\ pc = "cw_regrid"
    /\ caller = "main"
    /\ ~AllZero(src_grid.mask)
    /\ ~AllZero(dest_grid.mask)
    /\ AllZero(tmp[src_grid_scrip].mask)

\* the constructor the claim names for an atmosphere grid
ClaimedCtor(atm) ==
    IF atm = "CORE2" THEN "Core2Grid"
    ELSE IF atm = "JRA55" THEN "Jra55Grid"
    ELSE "Jra55RiverGrid"

\* C8: every iteration that no external failure interrupts calls, in this
\* order, the imported constructor matching the atmosphere grid, MomGrid.fromfile
\* with the geometry file and the mask file, create_weights,
\* convert_to_scrip_output and shutil.move to the output name.
C8_CallOrder ==
    (cursor >= 1 /\ ~extFailed /\ (pc = "loop" \/ Terminated)) =>
        LET c == combos[cursor]
        IN /\ ClaimedCtor(c[1]) \in Imported
           /\ calls = << [fn |-> ClaimedCtor(c[1]), args |-> grid_file_dict[c[1]]],
                         [fn |-> "MomGrid.fromfile",
                          args |-> <<grid_file_dict[c[2]][1], grid_file_dict[c[2]][2]>>],
                         [fn |-> "create_weights", args |-> <<c[3]>>],
                         [fn |-> "convert_to_scrip_output", args |-> <<>>],
                         [fn |-> "shutil.move", args |-> <<OutName(c)>>] >>

\* C9: once the weight generator has exited non-zero for a combination,
\* create_weights has returned None to main without raising, main has gone on
\* into convert_to_scrip_output, where the run can only end by an unhandled
\* error (of the NetCDF open, or of ncrename not starting); the output files
\* are those of the earlier combinations and no others.
C9_GeneratorFailureAborts ==
    genFailedAt > 0 =>
        /\ weights = <<>>
        /\ cursor = genFailedAt
        /\ pc \in {"cv_mkstemp", "cv_rename", "cv_copy", "exit"}
        /\ pc = "exit" => /\ exit = <<1>>
                          /\ abortAt \in {"nc.Dataset", "sp.check_output(ncrename)"}
        /\ DOMAIN cwd = {OutName(combos[i]) : i \in 1..(genFailedAt - 1)}
        /\ Cardinality(DOMAIN cwd) = genFailedAt - 1

C9_Witness ==
    /\ genFailedAt >= 2
    /\ genFailedAt < Len(combos)
    /\ pc = "exit"
    /\ abortAt = "nc.Dataset"

\* C10: a non-zero exit of ncrename does not end the run, execution goes on
\* into the NetCDF step; when that step raises because the renamed file is
\* not there, the raw weight file is still on disk, main's weights was not
\* replaced by a converted path and the combination has no output file.
C10_RenameFailureNotFatal ==
    renameRet = "fail" =>
        /\ abortAt # "ncrename"
        /\ pc \in {"cv_copy", "move", "loop", "exit"}
        /\ (exit = <<1>> /\ genFailedAt = 0 /\ new_weights \notin DOMAIN tmp) =>
              /\ abortAt = "nc.Dataset"
              /\ regrid_weights \in DOMAIN tmp
              /\ tmp[regrid_weights] = EsmfWeights
              /\ weights = <<regrid_weights>>
              /\ OutName(combos[cursor]) \notin DOMAIN cwd

C10_Witness ==
    /\ renameRet = "fail"
    /\ genFailedAt = 0
    /\ pc = "exit"
    /\ abortAt = "nc.Dataset"
    /\ new_weights \notin DOMAIN tmp
    /\ regrid_weights \in DOMAIN tmp

====
